---------------------------- MODULE Spec2Model ----------------------------
(***************************************************************************)
(* A model of the gpt-5-pro MCP client: the tool-calling loop of the       *)
(* Responses variant (GPT5ProClient.Handle) and of the Chat Completions    *)
(* variant (ChatCompletionsClient.Handle), the Session they share between  *)
(* calls, the context-gating pre-pass and the tool executor.               *)
(*                                                                         *)
(* Texts are sequences of tokens [t, v]; a response id is a natural        *)
(* number, 0 standing for the empty string.                                *)
(***************************************************************************)
EXTENDS Naturals, Sequences, FiniteSets

\* ------------------------------------------------------------------ bounds

\* Three kinds of run are checked. A deep run delivers few calls, one at a
\* time, to a provider that answers often enough for a call to reach the
\* iteration cap. A serial run delivers more calls, one at a time, to a
\* provider that answers a few times. An overlapping run delivers calls
\* while others are in progress. A provider that has given its answers
\* fails every further request.
MaxDeepCalls == 1

MaxDeepAnswers == 12

MaxSeqCalls == 3

MaxSeqAnswers == 4

MaxOverlapCalls == 2

MaxOverlapAnswers == 2

\* Provider responses of one run that carry the three-call tool list.
MaxMultiRounds == 1

\* Calls and provider answers of a run that starts with main.
MaxEnvCalls == 1

MaxEnvAnswers == 3

\* Rounds of tool calls a provider script asks for before its last answer.
MaxPairRounds == 11

\* A run on a stored conversation: one call, deep enough to reach the
\* iteration cap.
MaxHistCalls == 1

MaxHistAnswers == 11

\* A fair run: two calls, the provider answering often enough for one of
\* them to reach the iteration cap while the other waits.
MaxLiveCalls == 2

MaxLiveAnswers == 12

\* A run on responses of any shape: one call, and up to this many output
\* items, and content parts in an item, in a response.
MaxTextCalls == 1

MaxTextItems == 2

MaxTextParts == 2

\* The goroutines the transport runs Handle on.
Procs == {"h1", "h2"}

\* ------------------------------------------------------- program constants

maxIterations == 10

NoID == 0

Unlocked == "unlocked"

\* ------------------------------------------------------------------- texts

Tok(t, v) == [t |-> t, v |-> v]

Word(v) == Tok("word", v)

NL == Tok("nl", "\n")

RECURSIVE Flatten(_)
Flatten(ss) == IF ss = <<>> THEN <<>> ELSE Head(ss) \o Flatten(Tail(ss))

\* The sequences that enumerate the finite set S, each element once: the
\* orders in which a range over a Go map may visit its keys.
RECURSIVE Orders(_)
Orders(S) ==
    IF S = {} THEN {<<>>}
    ELSE UNION {{<<x>> \o o : o \in Orders(S \ {x})} : x \in S}

SeqToSet(s) == {s[i] : i \in 1..Len(s)}


\* ------------------------------------------------- the prompt scanner

\* A prompt is a sequence of tokens, one per stretch of text the scanner's
\* patterns tell apart: "file" (a word ending in a listed extension, v the
\* path), "call" (an identifier followed by an opening parenthesis, v the
\* identifier), "line" ("line"/"lines" and a number or range, v the range),
\* "colon" (a colon and a number, v the number), "keyword" (a word that
\* contains one of the code keywords) and "word" (anything else).
commonWords ==
    {"if", "for", "while", "do", "then", "and", "or", "not", "is", "the",
     "a", "an", "to", "of", "in", "on", "at", "by", "from", "with"}

ToLower(w) == CASE w = "If" -> "if" [] w = "For" -> "for" [] OTHER -> w

isCommonWord(word) == ToLower(word) \in commonWords

contains(slice, item) == \E i \in 1..Len(slice) : slice[i] = item

Values(prompt, kinds) ==
    LET RECURSIVE V(_)
        V(s) == IF s = <<>> THEN <<>>
                ELSE IF Head(s).t \in kinds THEN <<Head(s).v>> \o V(Tail(s))
                ELSE V(Tail(s))
    IN V(prompt)

RECURSIVE Dedup(_, _)
Dedup(s, acc) ==
    IF s = <<>> THEN acc
    ELSE Dedup(Tail(s), IF contains(acc, Head(s)) THEN acc ELSE Append(acc, Head(s)))

AnalyzePromptForReferences(prompt) ==
    LET files == Dedup(Values(prompt, {"file"}), <<>>)
        funcs == {f \in SeqToSet(Values(prompt, {"call"})) : ~isCommonWord(f)}
        lineMatches == Values(prompt, {"line", "colon"})
        lineRefs ==
            IF Len(lineMatches) > 0 /\ Len(files) > 0
            THEN [f \in {files[Len(files)]} |-> lineMatches[Len(lineMatches)]]
            ELSE [f \in {} |-> ""]
        keyword == \E i \in 1..Len(prompt) : prompt[i].t = "keyword"
    IN [Files |-> files,
        Functions |-> [f \in funcs |-> ""],
        LineRefs |-> lineRefs,
        HasCodeRefs |-> Len(files) > 0 \/ funcs # {}
                        \/ DOMAIN lineRefs # {} \/ keyword]

FileRequest(requirements, filePath) ==
    IF filePath \in DOMAIN requirements.LineRefs
    THEN [Type |-> "file_section", Path |-> filePath, Function |-> "",
          Lines |-> requirements.LineRefs[filePath],
          Reason |-> "lines mentioned in prompt"]
    ELSE [Type |-> "file_content", Path |-> filePath, Function |-> "",
          Lines |-> "", Reason |-> "file mentioned in prompt"]

FunctionRequest(requirements, funcName) ==
    [Type |-> "function_implementation",
     Path |-> requirements.Functions[funcName], Function |-> funcName,
     Lines |-> "", Reason |-> "function referenced in prompt"]

\* The request lists BuildContextRequest can return: the files in their
\* order, then the functions in any order of the map.
BuildContextRequest(requirements) ==
    {[Status |-> "context_needed",
      Message |-> "To provide accurate analysis, I need to see the actual code.",
      ContextRequests |->
          [i \in 1..Len(requirements.Files) |->
              FileRequest(requirements, requirements.Files[i])]
          \o [i \in 1..Len(o) |-> FunctionRequest(requirements, o[i])]]
     : o \in Orders(DOMAIN requirements.Functions)}

\* One numbered entry; its number is its place in the list.
FormatRequest(i, req) ==
    <<Tok("entry", req.Type)>>
    \o (IF req.Path # "" THEN <<Tok("Path", req.Path)>> ELSE <<>>)
    \o (IF req.Function # "" THEN <<Tok("Function", req.Function)>> ELSE <<>>)
    \o (IF req.Lines # "" THEN <<Tok("Lines", req.Lines)>> ELSE <<>>)
    \o <<Tok("Reason", req.Reason)>>

FormatContextRequestAsText(response) ==
    <<Tok("message", response.Message), Tok("heading", "CONTEXT REQUESTS:")>>
    \o Flatten([i \in 1..Len(response.ContextRequests) |->
                    FormatRequest(i, response.ContextRequests[i])])
    \o <<Tok("template", "gathered_context")>>

\* ------------------------------------------------- prompt enrichment

\* The gathered_context parameter: raw is "empty" (the empty string),
\* "invalid" (text json.Unmarshal rejects for a GatheredContext) or "json"
\* (an object whose three maps are files, functions and metadata).
EmptyMap == [k \in {} |-> ""]

NoContext == [raw |-> "empty", files |-> EmptyMap, functions |-> EmptyMap,
              metadata |-> EmptyMap]

BadContext == [raw |-> "invalid", files |-> EmptyMap, functions |-> EmptyMap,
               metadata |-> EmptyMap]

Context(files, functions, metadata) ==
    [raw |-> "json", files |-> files, functions |-> functions,
     metadata |-> metadata]

\* A section that writes its heading also when its map is empty.
SectionKeepsEmpty(heading, label, m, o) ==
    <<Tok("heading", heading)>>
    \o Flatten([i \in 1..Len(o) |->
           <<Tok(label, o[i]), Tok("fence", "fence"), Tok("body", m[o[i]]),
             Tok("fence", "fence")>>])

Section(heading, label, m, o) ==
    IF DOMAIN m = {} THEN <<>>
    ELSE <<Tok("heading", heading)>>
         \o Flatten([i \in 1..Len(o) |->
                <<Tok(label, o[i]), Tok("fence", "fence"), Tok("body", m[o[i]]),
                  Tok("fence", "fence")>>])

\* The results EnrichPromptWithContext can return, one per order in which
\* the three maps are visited.
EnrichPromptWithContext(prompt, contextJSON) ==
    IF contextJSON.raw = "empty" THEN {[err |-> FALSE, text |-> prompt]}
    ELSE IF contextJSON.raw = "invalid"
    THEN {[err |-> TRUE, text |-> <<Tok("error", "invalid gathered_context JSON")>>]}
    ELSE {[err |-> FALSE,
           text |-> <<Tok("heading", "# ORIGINAL QUESTION")>> \o prompt
                    \o Section("# RELEVANT CODE CONTEXT", "## File: ",
                               contextJSON.files, of)
                    \o Section("# FUNCTION IMPLEMENTATIONS", "## Function: ",
                               contextJSON.functions, ofn)
                    \o Section("# ADDITIONAL CONTEXT", "## ",
                               contextJSON.metadata, om)
                    \o <<Tok("heading", "# ANALYSIS REQUEST"),
                         Tok("line", "Given the code and context above, please answer the original question:")>>
                    \o prompt]
          : of \in Orders(DOMAIN contextJSON.files),
            ofn \in Orders(DOMAIN contextJSON.functions),
            om \in Orders(DOMAIN contextJSON.metadata)}

\* ------------------------------------------------- the tool executor

\* The argument string of a tool call: valid says whether json.Unmarshal
\* decodes it into the tool's argument struct.
Args(valid, path, pattern) ==
    [valid |-> valid, path |-> path, pattern |-> pattern, ignore_case |-> FALSE]

ToolCall(id, name, arguments) == [ID |-> id, Name |-> name, Arguments |-> arguments]

Ok(text) == [failed |-> FALSE, text |-> text]

Failed(msg) == [failed |-> TRUE, text |-> msg]

\* The file operations, over a file system that holds one file.
ReadFile(path) ==
    IF path = "a.go" THEN Ok(<<Tok("body", "package a")>>)
    ELSE Failed(<<Tok("error", "failed to read file")>>)

GrepFiles(pattern, path, ignoreCase) ==
    IF path = "a.go" THEN Ok(<<Tok("body", "a.go:1:package a")>>)
    ELSE Failed(<<Tok("error", "no files matched")>>)

\* An executor that goes on with the zero value of the arguments when it
\* cannot decode them.
executeFunctionUndecoded(name, argsJSON) ==
    CASE name = "read_file" -> ReadFile(IF argsJSON.valid THEN argsJSON.path ELSE "")
      [] name = "grep_files" ->
            IF argsJSON.valid
            THEN GrepFiles(argsJSON.pattern, argsJSON.path, argsJSON.ignore_case)
            ELSE GrepFiles("", "", FALSE)
      [] OTHER -> Failed(<<Tok("error", "unknown function: "), Word(name)>>)

\* An executor that reads the file at the path for a name it does not
\* know.
executeFunctionReadsAnyName(name, argsJSON) ==
    CASE name = "grep_files" ->
            IF ~argsJSON.valid
            THEN Failed(<<Tok("error", "invalid arguments: ")>>)
            ELSE GrepFiles(argsJSON.pattern, argsJSON.path, argsJSON.ignore_case)
      [] OTHER ->
            IF ~argsJSON.valid
            THEN Failed(<<Tok("error", "invalid arguments: ")>>)
            ELSE ReadFile(argsJSON.path)

executeFunction(name, argsJSON) ==
    CASE name = "read_file" ->
            IF ~argsJSON.valid
            THEN Failed(<<Tok("error", "invalid arguments: ")>>)
            ELSE ReadFile(argsJSON.path)
      [] name = "grep_files" ->
            IF ~argsJSON.valid
            THEN Failed(<<Tok("error", "invalid arguments: ")>>)
            ELSE GrepFiles(argsJSON.pattern, argsJSON.path, argsJSON.ignore_case)
      [] OTHER -> Failed(<<Tok("error", "unknown function: "), Word(name)>>)

chatExecuteFunction(name, argsJSON) ==
    CASE name = "read_file" ->
            IF ~argsJSON.valid
            THEN Failed(<<Tok("error", "invalid arguments: ")>>)
            ELSE ReadFile(argsJSON.path)
      [] name = "grep_files" ->
            IF ~argsJSON.valid
            THEN Failed(<<Tok("error", "invalid arguments: ")>>)
            ELSE GrepFiles(argsJSON.pattern, argsJSON.path, argsJSON.ignore_case)
      [] OTHER -> Failed(<<Tok("error", "unknown function: "), Word(name)>>)

\* One invocation of a file operation of the FileOps collaborator.
ReadFileCall(path) ==
    [op |-> "ReadFile", path |-> path, pattern |-> "", ignoreCase |-> FALSE]

GrepFilesCall(pattern, path, ignoreCase) ==
    [op |-> "GrepFiles", path |-> path, pattern |-> pattern, ignoreCase |-> ignoreCase]

\* The file operations executeFunction invokes for one tool call: none
\* when the arguments do not decode or the name is not one of the two.
executeFunctionCalls(name, argsJSON) ==
    CASE name = "read_file" ->
            IF ~argsJSON.valid THEN <<>> ELSE <<ReadFileCall(argsJSON.path)>>
      [] name = "grep_files" ->
            IF ~argsJSON.valid THEN <<>>
            ELSE <<GrepFilesCall(argsJSON.pattern, argsJSON.path, argsJSON.ignore_case)>>
      [] OTHER -> <<>>

chatExecuteFunctionCalls(name, argsJSON) ==
    CASE name = "read_file" ->
            IF ~argsJSON.valid THEN <<>> ELSE <<ReadFileCall(argsJSON.path)>>
      [] name = "grep_files" ->
            IF ~argsJSON.valid THEN <<>>
            ELSE <<GrepFilesCall(argsJSON.pattern, argsJSON.path, argsJSON.ignore_case)>>
      [] OTHER -> <<>>

\* The file operations of one round of tool calls, in the order of the
\* calls.
RECURSIVE Invocations(_)
Invocations(toolCalls) ==
    IF toolCalls = <<>> THEN <<>>
    ELSE executeFunctionCalls(Head(toolCalls).Name, Head(toolCalls).Arguments)
         \o Invocations(Tail(toolCalls))

RECURSIVE ChatInvocations(_)
ChatInvocations(toolCalls) ==
    IF toolCalls = <<>> THEN <<>>
    ELSE chatExecuteFunctionCalls(Head(toolCalls).Name, Head(toolCalls).Arguments)
         \o ChatInvocations(Tail(toolCalls))

\* fmt.Sprintf("Error: %v", err)
ErrorText(msg) == <<Tok("prefix", "Error: ")>> \o msg

\* A loop that forgets the "Error: " prefix: the error's message alone.
ToolResultBare(r) == r.text

\* The result string of one tool call in the loops: the executor's text, or
\* the error turned into text.
ToolResult(r) == IF r.failed THEN ErrorText(r.text) ELSE r.text

\* ------------------------------------------------- Responses API shapes

Part(type, text) == [Type |-> type, Text |-> text]

MessageItem(content) ==
    [Type |-> "message", CallID |-> "", Name |-> "", Arguments |-> Args(FALSE, "", ""),
     Content |-> content]

ReasoningItem ==
    [Type |-> "reasoning", CallID |-> "", Name |-> "", Arguments |-> Args(FALSE, "", ""),
     Content |-> <<>>]

FunctionCallItem(tc) ==
    [Type |-> "function_call", CallID |-> tc.ID, Name |-> tc.Name,
     Arguments |-> tc.Arguments, Content |-> <<>>]

extractToolCalls(response) ==
    LET RECURSIVE X(_)
        X(items) ==
            IF items = <<>> THEN <<>>
            ELSE IF Head(items).Type = "function_call"
            THEN <<ToolCall(Head(items).CallID, Head(items).Name, Head(items).Arguments)>>
                 \o X(Tail(items))
            ELSE X(Tail(items))
    IN X(response.Output)

\* The texts of the "text" and "output_text" parts of the "message" items.
TextParts(response) ==
    LET RECURSIVE P(_)
        P(parts) ==
            IF parts = <<>> THEN <<>>
            ELSE IF Head(parts).Type \in {"text", "output_text"}
            THEN <<Head(parts).Text>> \o P(Tail(parts))
            ELSE P(Tail(parts))
        RECURSIVE I(_)
        I(items) ==
            IF items = <<>> THEN <<>>
            ELSE IF Head(items).Type = "message"
            THEN P(Head(items).Content) \o I(Tail(items))
            ELSE I(Tail(items))
    IN I(response.Output)

\* The joining loop: a newline goes before a part only when the result so
\* far is not empty.
RECURSIVE JoinParts(_, _)
JoinParts(textParts, result) ==
    IF textParts = <<>> THEN result
    ELSE JoinParts(Tail(textParts),
                   (IF result # <<>> THEN result \o <<NL>> ELSE result)
                   \o Head(textParts))

extractTextContent(response) == JoinParts(TextParts(response), <<>>)

\* An input item of a Responses request: the user's message or one
\* function-call output.
InputMessage(prompt) == [Type |-> "message", CallID |-> "", Content |-> prompt]

FunctionCallOutput(callID, output) ==
    [Type |-> "function_call_output", CallID |-> callID, Content |-> output]

\* A loop that stops handling a tool call at its error: no output for a
\* failed call.
RECURSIVE ToolOutputsSkipFailed(_)
ToolOutputsSkipFailed(toolCalls) ==
    IF toolCalls = <<>> THEN <<>>
    ELSE LET r == executeFunction(Head(toolCalls).Name, Head(toolCalls).Arguments)
         IN (IF r.failed THEN <<>>
             ELSE <<FunctionCallOutput(Head(toolCalls).ID, r.text)>>)
            \o ToolOutputsSkipFailed(Tail(toolCalls))

\* The tool outputs of one round, one per tool call and in their order.
RECURSIVE ToolOutputs(_)
ToolOutputs(toolCalls) ==
    IF toolCalls = <<>> THEN <<>>
    ELSE <<FunctionCallOutput(Head(toolCalls).ID,
              ToolResult(executeFunction(Head(toolCalls).Name, Head(toolCalls).Arguments)))>>
         \o ToolOutputs(Tail(toolCalls))

\* --------------------------------------------- Chat Completions shapes

Turn(role, content, id) ==
    [Role |-> role, Content |-> content, ToolCallID |-> id, ToolCalls |-> <<>>]

SystemMessage == Turn("system", <<Tok("system", "buildSystemPrompt")>>, "")

UserMessage(prompt) == Turn("user", prompt, "")

\* openai.AssistantMessage(content): the turn holds the content alone.
AssistantMessage(content) == Turn("assistant", content, "")

ToolMessage(id, content) == Turn("tool", content, id)

\* The tool turns of one round, one per tool call and in their order.
RECURSIVE ToolMessages(_)
ToolMessages(toolCalls) ==
    IF toolCalls = <<>> THEN <<>>
    ELSE <<ToolMessage(Head(toolCalls).ID,
              ToolResult(chatExecuteFunction(Head(toolCalls).Name, Head(toolCalls).Arguments)))>>
         \o ToolMessages(Tail(toolCalls))

\* ------------------------------------------------- the environment

\* The prompts a caller sends: one without a code reference, one that
\* names a function and a file.
PlainPrompt == <<Word("explain"), Word("channels")>>

CodePrompt ==
    <<Word("why"), Tok("call", "get_tree_state"), Word("in"),
      Tok("file", "tree_publisher.py")>>

Prompts == {PlainPrompt, CodePrompt}

\* More prompts for the pre-pass alone: a code keyword and nothing else, a
\* line reference and no file, a stop-listed word before a parenthesis, and
\* two files with line references.
KeywordPrompt == <<Word("explain"), Tok("keyword", "implementation")>>

LinePrompt == <<Word("what"), Word("happens"), Tok("line", "230")>>

CommonCallPrompt == <<Tok("call", "If"), Word("x"), Word("then")>>

TwoFilePrompt ==
    <<Tok("file", "a.go"), Tok("colon", "12"), Word("and"),
      Tok("file", "b.go"), Word("differ")>>

AllPrompts ==
    Prompts \cup {KeywordPrompt, LinePrompt, CommonCallPrompt, TwoFilePrompt}

FileContext ==
    Context([k \in {"tree_publisher.py"} |-> "code"], EmptyMap, EmptyMap)

Contexts == {NoContext, BadContext, FileContext}

FullContext ==
    Context([k \in {"a.go", "b.go"} |-> IF k = "a.go" THEN "package a" ELSE "package b"],
            [k \in {"get_tree_state"} |-> "def get_tree_state"],
            [k \in {"error_log"} |-> "panic"])

EmptyObjectContext == Context(EmptyMap, EmptyMap, EmptyMap)

AllContexts == Contexts \cup {FullContext, EmptyObjectContext}

\* The tool-call lists a model asks for: one call, or four calls of which
\* the first three fail in the executor (unknown name, undecodable
\* arguments, failing file operation).
OneCall == <<ToolCall("call_1", "read_file", Args(TRUE, "a.go", ""))>>

ManyCalls ==
    <<ToolCall("call_3", "delete_file", Args(TRUE, "a.go", "")),
      ToolCall("call_1", "grep_files", Args(FALSE, "", "")),
      ToolCall("call_4", "read_file", Args(TRUE, "missing.go", "")),
      ToolCall("call_2", "read_file", Args(TRUE, "a.go", ""))>>

AnswerText == <<Word("answer")>>

\* What a provider does with a request: it fails ("error"), or it answers
\* with a final text ("final"), with an empty text ("blank"), with no
\* output items or choices at all ("none"), or with tool calls.
AnswerKinds == {"final", "blank", "none", "tools", "manytools"}

\* The Responses API's answer of a kind, under the id the provider gives it.
Response(kind, id) ==
    [ID |-> id,
     Output |->
        CASE kind = "final" ->
                <<ReasoningItem, MessageItem(<<Part("output_text", AnswerText)>>)>>
          [] kind = "blank" -> <<MessageItem(<<Part("output_text", <<>>)>>)>>
          [] kind = "none" -> <<>>
          [] kind = "tools" -> <<ReasoningItem, FunctionCallItem(OneCall[1])>>
          [] OTHER ->
                <<FunctionCallItem(ManyCalls[1]),
                  MessageItem(<<Part("output_text", <<Word("looking")>>)>>),
                  FunctionCallItem(ManyCalls[2]), FunctionCallItem(ManyCalls[3]),
                  FunctionCallItem(ManyCalls[4])>>]

\* The Chat Completions API's answer of a kind.
Choice(content, toolCalls) == [Content |-> content, ToolCalls |-> toolCalls]

Completion(kind) ==
    [Choices |->
        CASE kind = "final" -> <<Choice(AnswerText, <<>>)>>
          [] kind = "blank" -> <<Choice(<<>>, <<>>)>>
          [] kind = "none" -> <<>>
          [] kind = "tools" -> <<Choice(<<>>, OneCall)>>
          [] OTHER -> <<Choice(<<Word("looking")>>, ManyCalls)>>]

ApiError == <<Tok("error", "provider request failed")>>

\* ------------------------------------------------- start-up

\* The environment of the process: each variable unset ("") or set.
Env(openaiKey, openaiURL, routerKey, routerURL) ==
    [OPENAI_API_KEY |-> openaiKey, OPENAI_BASE_URL |-> openaiURL,
     OPENROUTER_API_KEY |-> routerKey, OPENROUTER_BASE_URL |-> routerURL]

NoEnv == Env("", "", "", "")

Envs ==
    {Env(k1, u1, k2, u2) :
        k1 \in {"", "sk-openai"}, u1 \in {"", "https://aihubmix.com/v1"},
        k2 \in {"", "sk-or"}, u2 \in {"", "https://router.example/v1"}}

\* A start-up that lets OPENROUTER_API_KEY decide before OPENAI_API_KEY is
\* looked at.
mainRouterFirst(e) ==
    IF e.OPENROUTER_API_KEY # ""
    THEN [fatal |-> FALSE, apiKey |-> e.OPENROUTER_API_KEY,
          baseURL |-> IF e.OPENROUTER_BASE_URL = "" THEN "https://openrouter.ai/api/v1"
                      ELSE e.OPENROUTER_BASE_URL,
          useResponsesAPI |-> FALSE]
    ELSE IF e.OPENAI_API_KEY = ""
    THEN [fatal |-> TRUE, apiKey |-> "", baseURL |-> "", useResponsesAPI |-> FALSE]
    ELSE [fatal |-> FALSE, apiKey |-> e.OPENAI_API_KEY, baseURL |-> e.OPENAI_BASE_URL,
          useResponsesAPI |-> e.OPENAI_BASE_URL = ""]

\* main up to its call of client.New: log.Fatal, or the arguments of New.
main(e) ==
    IF e.OPENAI_API_KEY = ""
    THEN IF e.OPENROUTER_API_KEY = ""
         THEN [fatal |-> TRUE, apiKey |-> "", baseURL |-> e.OPENROUTER_BASE_URL,
               useResponsesAPI |-> TRUE]
         ELSE [fatal |-> FALSE, apiKey |-> e.OPENROUTER_API_KEY,
               baseURL |-> IF e.OPENROUTER_BASE_URL = "" THEN "https://openrouter.ai/api/v1"
                           ELSE e.OPENROUTER_BASE_URL,
               useResponsesAPI |-> FALSE]
    ELSE [fatal |-> FALSE, apiKey |-> e.OPENAI_API_KEY, baseURL |-> e.OPENAI_BASE_URL,
          useResponsesAPI |-> e.OPENAI_BASE_URL = ""]

\* client.New: the fields of the client, the Chat Completions client being
\* built when useResponsesAPI is false.
New(apiKey, url, responsesAPI) ==
    [baseURL |-> url, useResponsesAPI |-> responsesAPI, chatClient |-> ~responsesAPI]

\* ------------------------------------------------------------- the state

VARIABLES
    useResponsesAPI,      \* GPT5ProClient.useResponsesAPI
    baseURL,              \* GPT5ProClient.baseURL: "" or an endpoint
    responseID,           \* GPT5ProClient.responseID, NoID for ""
    conversationHistory,  \* ChatCompletionsClient.conversationHistory
    mu,                   \* GPT5ProClient.mu: its holder, or Unlocked
    calls,                \* calls delivered so far
    answers,              \* provider answers given so far
    multi,                \* provider answers with the many-call list so far
    pc,                   \* where each goroutine is in Handle
    call,                 \* each goroutine's request
    prompt,               \* Handle's prompt after the pre-pass
    messages,             \* ChatCompletionsClient.Handle's messages
    respID,               \* response.ID of the response Handle holds
    received,             \* the response of the Responses API Handle holds
    toolCalls,            \* the tool calls of the response Handle holds
    iter,                 \* the loop counter i / iteration
    out,                  \* the result Handle returned
    sent,                 \* provider requests sent by the current call
    ran,                  \* executor invocations of the current call
    lastReq,              \* the provider request sent last by the call
    reqBase,              \* the length of the message list sent before it
    pre,                  \* the Session when the call arrived
    span,                 \* the call's span of Session accesses
    interleaved,          \* some span had a foreign access inside it
    invoked,              \* the file operations the executor invoked in the round
    env                   \* the environment variables main reads

vars ==
    <<useResponsesAPI, baseURL, responseID, conversationHistory, mu, calls,
      answers, multi, pc, call, prompt, messages, respID, received,
      toolCalls, iter,
      out, sent, ran, lastReq, reqBase, pre, span, interleaved, invoked,
      env>>

config == <<useResponsesAPI, baseURL, env>>

session == <<responseID, conversationHistory>>

budget == <<calls, answers, multi>>

\* What Handle holds of the last response of the Responses API.
held == <<respID, received>>

Session == [token |-> responseID, history |-> conversationHistory]

NoRequest == [instructions |-> FALSE, prev |-> NoID, input |-> <<>>, messages |-> <<>>]

NoCall ==
    [hasPrompt |-> FALSE, prompt |-> <<>>, continue |-> TRUE,
     gathered_context |-> NoContext, auto_gather_context |-> TRUE]

\* No response in hand.
NoResponse == [ID |-> NoID, Output |-> <<>>]

NoResult == [kind |-> "none", at |-> "none", text |-> <<>>]

\* mcp.NewToolResultText and mcp.NewToolResultError; at names the return
\* statement.
ResultText(at, text) == [kind |-> "text", at |-> at, text |-> text]

ResultError(at, text) == [kind |-> "error", at |-> at, text |-> text]

\* No call in progress: the lock free, every goroutine's locals zero.
Quiet(firstCall, firstPc) ==
    /\ mu = Unlocked
    /\ calls = 0
    /\ answers = 0
    /\ multi = 0
    /\ pc = [p \in Procs |-> IF p = "h1" THEN firstPc ELSE "idle"]
    /\ call = [p \in Procs |-> IF p = "h1" THEN firstCall ELSE NoCall]
    /\ prompt = [p \in Procs |-> <<>>]
    /\ messages = [p \in Procs |-> <<>>]
    /\ respID = [p \in Procs |-> NoID]
    /\ received = [p \in Procs |-> NoResponse]
    /\ invoked = [p \in Procs |-> <<>>]
    /\ toolCalls = [p \in Procs |-> <<>>]
    /\ iter = [p \in Procs |-> 0]
    /\ out = [p \in Procs |-> NoResult]
    /\ sent = [p \in Procs |-> 0]
    /\ ran = [p \in Procs |-> 0]
    /\ lastReq = [p \in Procs |-> NoRequest]
    /\ reqBase = [p \in Procs |-> 0]
    /\ pre = [p \in Procs |-> [token |-> NoID, history |-> <<>>]]
    /\ span = [p \in Procs |-> "out"]
    /\ interleaved = FALSE

\* Everything but the configuration, before any call.
Blank(firstCall, firstPc) ==
    /\ responseID = NoID
    /\ conversationHistory = <<>>
    /\ Quiet(firstCall, firstPc)

\* A client as New builds it for any caller: of either variant, the
\* Responses variant with or without a base URL.
Start(firstCall, firstPc) ==
    /\ useResponsesAPI \in BOOLEAN
    /\ baseURL \in (IF useResponsesAPI THEN {"", "https://endpoint/v1"}
                                        ELSE {"https://endpoint/v1"})
    /\ env = NoEnv
    /\ Blank(firstCall, firstPc)

\* The process after construction: no call yet, the Session empty.
Init == Start(NoCall, "idle")

\* ------------------------------------------------- the pre-pass

\* A pre-pass without Phase 1: the scanner is never consulted.
PrePassNeverAsks(c) ==
    IF ~c.hasPrompt
    THEN {[exit |-> "noPrompt", text |-> <<Tok("error", "required argument \"prompt\" not found")>>]}
    ELSE IF c.gathered_context.raw # "empty"
    THEN {IF e.err
          THEN [exit |-> "badContext",
                text |-> <<Tok("prefix", "Failed to process gathered_context: ")>> \o e.text]
          ELSE [exit |-> "loop", text |-> e.text]
          : e \in EnrichPromptWithContext(c.prompt, c.gathered_context)}
    ELSE {[exit |-> "loop", text |-> c.prompt]}

\* A pre-pass whose Phase 1 does not look at gathered_context: the scanner
\* short-circuits a call that brings its context.
PrePassScanFirst(c) ==
    IF ~c.hasPrompt
    THEN {[exit |-> "noPrompt", text |-> <<Tok("error", "required argument \"prompt\" not found")>>]}
    ELSE IF /\ c.auto_gather_context
            /\ AnalyzePromptForReferences(c.prompt).HasCodeRefs
    THEN {[exit |-> "context", text |-> FormatContextRequestAsText(r)]
          : r \in BuildContextRequest(AnalyzePromptForReferences(c.prompt))}
    ELSE IF c.gathered_context.raw # "empty"
    THEN {IF e.err
          THEN [exit |-> "badContext",
                text |-> <<Tok("prefix", "Failed to process gathered_context: ")>> \o e.text]
          ELSE [exit |-> "loop", text |-> e.text]
          : e \in EnrichPromptWithContext(c.prompt, c.gathered_context)}
    ELSE {[exit |-> "loop", text |-> c.prompt]}

\* A pre-pass that drops a gathered_context it cannot decode and goes on
\* with the prompt alone.
PrePassDropsBadContext(c) ==
    IF ~c.hasPrompt
    THEN {[exit |-> "noPrompt", text |-> <<Tok("error", "required argument \"prompt\" not found")>>]}
    ELSE IF /\ c.auto_gather_context
            /\ c.gathered_context.raw = "empty"
            /\ AnalyzePromptForReferences(c.prompt).HasCodeRefs
    THEN {[exit |-> "context", text |-> FormatContextRequestAsText(r)]
          : r \in BuildContextRequest(AnalyzePromptForReferences(c.prompt))}
    ELSE IF c.gathered_context.raw # "empty"
    THEN {[exit |-> "loop", text |-> IF e.err THEN c.prompt ELSE e.text]
          : e \in EnrichPromptWithContext(c.prompt, c.gathered_context)}
    ELSE {[exit |-> "loop", text |-> c.prompt]}

\* What Handle does with a request before it touches the Session: the
\* results it can return at once (exit "noPrompt", "context", "badContext"),
\* or the prompt it enters the loop with (exit "loop").
PrePass(c) ==
    IF ~c.hasPrompt
    THEN {[exit |-> "noPrompt", text |-> <<Tok("error", "required argument \"prompt\" not found")>>]}
    ELSE IF /\ c.auto_gather_context
            /\ c.gathered_context.raw = "empty"
            /\ AnalyzePromptForReferences(c.prompt).HasCodeRefs
    THEN {[exit |-> "context", text |-> FormatContextRequestAsText(r)]
          : r \in BuildContextRequest(AnalyzePromptForReferences(c.prompt))}
    ELSE IF c.gathered_context.raw # "empty"
    THEN {IF e.err
          THEN [exit |-> "badContext",
                text |-> <<Tok("prefix", "Failed to process gathered_context: ")>> \o e.text]
          ELSE [exit |-> "loop", text |-> e.text]
          : e \in EnrichPromptWithContext(c.prompt, c.gathered_context)}
    ELSE {[exit |-> "loop", text |-> c.prompt]}

Request(hasPrompt, pr, co, gc, au) ==
    [hasPrompt |-> hasPrompt, prompt |-> pr, continue |-> co,
     gathered_context |-> gc, auto_gather_context |-> au]

\* The requests of the runs of the loop: one per way through the pre-pass,
\* each with continue set and unset.
Requests ==
    UNION {{Request(TRUE, PlainPrompt, co, NoContext, TRUE),
            Request(TRUE, CodePrompt, co, NoContext, TRUE),
            Request(TRUE, CodePrompt, co, FileContext, TRUE),
            Request(TRUE, PlainPrompt, co, BadContext, TRUE),
            Request(FALSE, <<>>, co, NoContext, TRUE)} : co \in BOOLEAN}

\* Every request over the prompts and contexts of the pre-pass.
AllRequests ==
    {Request(TRUE, pr, co, gc, au)
     : pr \in AllPrompts, co \in BOOLEAN, gc \in AllContexts, au \in BOOLEAN}
    \cup {Request(FALSE, <<>>, co, NoContext, TRUE) : co \in BOOLEAN}

\* ------------------------------------------------- Session accesses

\* Goroutine p reads or writes the Session; ends says whether its call
\* returns in the same step.
Access(p, ends) ==
    /\ span' = [q \in Procs |->
                    IF q = p THEN (IF ends THEN "out" ELSE "in")
                    ELSE IF span[q] = "in" THEN "cut" ELSE span[q]]
    /\ interleaved' = (interleaved \/ span[p] = "cut")

\* Goroutine p returns without touching the Session in the step.
Leave(p) ==
    /\ span' = [span EXCEPT ![p] = "out"]
    /\ interleaved' = interleaved

Idle(p) == pc[p] = "idle"

\* ------------------------------------------------- a call arrives

\* Handle runs on goroutine p with request c: the pre-pass of both variants,
\* up to the first statement that touches the Session.
Enter(p, c) ==
    /\ calls' = calls + 1
    /\ call' = [call EXCEPT ![p] = c]
    /\ \E r \in PrePass(c) :
          IF r.exit = "loop"
          THEN /\ prompt' = [prompt EXCEPT ![p] = r.text]
               /\ pc' = [pc EXCEPT ![p] = "start"]
               /\ out' = [out EXCEPT ![p] = NoResult]
          ELSE /\ prompt' = [prompt EXCEPT ![p] = <<>>]
               /\ pc' = [pc EXCEPT ![p] = "done"]
               /\ out' = [out EXCEPT ![p] =
                     IF r.exit = "context" THEN ResultText(r.exit, r.text)
                     ELSE ResultError(r.exit, r.text)]
    /\ pre' = [pre EXCEPT ![p] = Session]
    /\ Leave(p)
    /\ UNCHANGED <<config, invoked, session, mu, answers, multi, messages, held,
                   toolCalls, iter, sent, ran, lastReq, reqBase>>

\* The transport delivers a call to goroutine p.
Arrive(p, maxCalls) ==
    /\ Idle(p)
    /\ calls < maxCalls
    /\ \E c \in Requests : Enter(p, c)

\* The result goes back to the caller and the goroutine ends.
Finish(p) ==
    /\ pc[p] = "done"
    /\ pc' = [pc EXCEPT ![p] = "idle"]
    /\ call' = [call EXCEPT ![p] = NoCall]
    /\ prompt' = [prompt EXCEPT ![p] = <<>>]
    /\ messages' = [messages EXCEPT ![p] = <<>>]
    /\ respID' = [respID EXCEPT ![p] = NoID]
    /\ received' = [received EXCEPT ![p] = NoResponse]
    /\ toolCalls' = [toolCalls EXCEPT ![p] = <<>>]
    /\ iter' = [iter EXCEPT ![p] = 0]
    /\ out' = [out EXCEPT ![p] = NoResult]
    /\ sent' = [sent EXCEPT ![p] = 0]
    /\ ran' = [ran EXCEPT ![p] = 0]
    /\ lastReq' = [lastReq EXCEPT ![p] = NoRequest]
    /\ reqBase' = [reqBase EXCEPT ![p] = 0]
    /\ pre' = [pre EXCEPT ![p] = [token |-> NoID, history |-> <<>>]]
    /\ invoked' = [invoked EXCEPT ![p] = <<>>]
    /\ UNCHANGED <<config, session, mu, budget, span, interleaved>>

\* ------------------------------------------------- the provider

\* The answers the provider may give now: any kind while the run's budget
\* lasts.
Kinds(limit) ==
    IF answers >= limit THEN {}
    ELSE IF multi >= MaxMultiRounds THEN AnswerKinds \ {"manytools"}
    ELSE AnswerKinds

Spend(kind) ==
    /\ answers' = answers + 1
    /\ multi' = IF kind = "manytools" THEN multi + 1 ELSE multi
    /\ calls' = calls

\* ------------------------------------------------- the Responses variant

\* A return that leaves the lock held.
RReturnKeepsLock(p, r) ==
    /\ out' = [out EXCEPT ![p] = r]
    /\ pc' = [pc EXCEPT ![p] = "done"]
    /\ mu' = mu

\* Handle returns result r: the deferred Unlock runs.
RReturn(p, r) ==
    /\ out' = [out EXCEPT ![p] = r]
    /\ pc' = [pc EXCEPT ![p] = "done"]
    /\ mu' = Unlocked

\* The error text of a failed first request.
FirstError ==
    IF baseURL # ""
    THEN <<Tok("prefix", "API error: ")>> \o ApiError
         \o <<Tok("note", "COMPATIBILITY NOTE: Responses API is NOT supported")>>
    ELSE <<Tok("prefix", "OpenAI API error: ")>> \o ApiError

FollowError == <<Tok("prefix", "OpenAI API error: ")>> \o ApiError

\* One pass through the head of the loop with response r: return the final
\* text, or go on to execute the tool calls.
RInspect(p, r) ==
    LET tcs == extractToolCalls(r)
        text == extractTextContent(r)
    IN IF Len(tcs) = 0
       THEN /\ RReturn(p, IF text = <<>>
                          THEN ResultError("noText", <<Tok("error", "No text content in response")>>)
                          ELSE ResultText("final", text))
            /\ toolCalls' = [toolCalls EXCEPT ![p] = <<>>]
       ELSE /\ pc' = [pc EXCEPT ![p] = "tools"]
            /\ toolCalls' = [toolCalls EXCEPT ![p] = tcs]
            /\ UNCHANGED <<out, mu>>

\* A first request that never carries a token.
FirstPreviousFresh(continueConversation, stored) == NoID

\* The token the first request carries.
FirstPrevious(continueConversation, stored) ==
    IF continueConversation /\ stored # NoID THEN stored ELSE NoID

\* A first request built without taking the lock.
RStartNoLock(p) ==
    /\ useResponsesAPI
    /\ pc[p] = "start"
    /\ mu' = p
    /\ responseID' = IF ~call[p].continue THEN NoID ELSE responseID
    /\ lastReq' = [lastReq EXCEPT ![p] =
            [instructions |-> TRUE,
             prev |-> FirstPrevious(call[p].continue, responseID'),
             input |-> <<InputMessage(prompt[p])>>, messages |-> <<>>]]
    /\ sent' = [sent EXCEPT ![p] = 1]
    /\ pc' = [pc EXCEPT ![p] = "first"]
    /\ Access(p, FALSE)
    /\ UNCHANGED <<config, invoked, conversationHistory, budget, call, prompt, messages,
                   held, toolCalls, iter, out, ran, reqBase, pre>>

\* Lock, reset, build the first request and send it.
RStart(p) ==
    /\ useResponsesAPI
    /\ pc[p] = "start"
    /\ mu = Unlocked
    /\ mu' = p
    /\ responseID' = IF ~call[p].continue THEN NoID ELSE responseID
    /\ lastReq' = [lastReq EXCEPT ![p] =
            [instructions |-> TRUE,
             prev |-> FirstPrevious(call[p].continue, responseID'),
             input |-> <<InputMessage(prompt[p])>>, messages |-> <<>>]]
    /\ sent' = [sent EXCEPT ![p] = 1]
    /\ pc' = [pc EXCEPT ![p] = "first"]
    /\ Access(p, FALSE)
    /\ UNCHANGED <<config, invoked, conversationHistory, budget, call, prompt, messages,
                   held, toolCalls, iter, out, ran, reqBase, pre>>

\* The first request fails.
RFirstFails(p) ==
    /\ useResponsesAPI
    /\ pc[p] = "first"
    /\ RReturn(p, ResultError("apiError", FirstError))
    /\ Leave(p)
    /\ UNCHANGED <<config, invoked, session, budget, call, prompt, messages, held,
                   toolCalls, iter, sent, ran, lastReq, reqBase, pre>>

\* The first response arrives: store its id and enter the loop.
RFirst(p, limit) ==
    /\ useResponsesAPI
    /\ pc[p] = "first"
    /\ \E kind \in Kinds(limit) :
          LET r == Response(kind, answers + 1)
          IN /\ Spend(kind)
             /\ responseID' = r.ID
             /\ respID' = [respID EXCEPT ![p] = r.ID]
             /\ received' = [received EXCEPT ![p] = r]
             /\ iter' = [iter EXCEPT ![p] = 0]
             /\ RInspect(p, r)
             /\ Access(p, pc'[p] = "done")
    /\ UNCHANGED <<config, invoked, conversationHistory, call, prompt, messages, sent,
                   ran, lastReq, reqBase, pre>>

\* A follow-up request that carries the token stored when the call
\* arrived instead of the id of the response in hand.
RToolsOldToken(p) ==
    /\ useResponsesAPI
    /\ pc[p] = "tools"
    /\ lastReq' = [lastReq EXCEPT ![p] =
            [instructions |-> FALSE, prev |-> pre[p].token,
             input |-> ToolOutputs(toolCalls[p]), messages |-> <<>>]]
    /\ ran' = [ran EXCEPT ![p] = ran[p] + Len(toolCalls[p])]
    /\ sent' = [sent EXCEPT ![p] = sent[p] + 1]
    /\ pc' = [pc EXCEPT ![p] = "follow"]
    /\ invoked' = [invoked EXCEPT ![p] = Invocations(toolCalls[p])]
    /\ UNCHANGED <<config, session, mu, budget, call, prompt, messages, held,
                   toolCalls, iter, out, reqBase, pre, span, interleaved>>

\* Execute the round's tool calls and send the follow-up request.
RTools(p) ==
    /\ useResponsesAPI
    /\ pc[p] = "tools"
    /\ lastReq' = [lastReq EXCEPT ![p] =
            [instructions |-> FALSE, prev |-> respID[p],
             input |-> ToolOutputs(toolCalls[p]), messages |-> <<>>]]
    /\ ran' = [ran EXCEPT ![p] = ran[p] + Len(toolCalls[p])]
    /\ sent' = [sent EXCEPT ![p] = sent[p] + 1]
    /\ pc' = [pc EXCEPT ![p] = "follow"]
    /\ invoked' = [invoked EXCEPT ![p] = Invocations(toolCalls[p])]
    /\ UNCHANGED <<config, session, mu, budget, call, prompt, messages, held,
                   toolCalls, iter, out, reqBase, pre, span, interleaved>>

\* The follow-up request fails.
RFollowFails(p) ==
    /\ useResponsesAPI
    /\ pc[p] = "follow"
    /\ RReturn(p, ResultError("apiError", FollowError))
    /\ Leave(p)
    /\ UNCHANGED <<config, invoked, session, budget, call, prompt, messages, held,
                   toolCalls, iter, sent, ran, lastReq, reqBase, pre>>

\* The follow-up response arrives: store its id, count the iteration, and
\* go through the head of the loop again or leave it.
RFollow(p, limit) ==
    /\ useResponsesAPI
    /\ pc[p] = "follow"
    /\ \E kind \in Kinds(limit) :
          LET r == Response(kind, answers + 1)
          IN /\ Spend(kind)
             /\ responseID' = r.ID
             /\ respID' = [respID EXCEPT ![p] = r.ID]
             /\ received' = [received EXCEPT ![p] = r]
             /\ iter' = [iter EXCEPT ![p] = iter[p] + 1]
             /\ IF iter[p] + 1 < maxIterations
                THEN RInspect(p, r)
                ELSE /\ RReturn(p, ResultError("maxIter",
                            <<Tok("error", "Max function call iterations reached")>>))
                     /\ UNCHANGED toolCalls
             /\ Access(p, pc'[p] = "done")
    /\ UNCHANGED <<config, invoked, conversationHistory, call, prompt, messages, sent,
                   ran, lastReq, reqBase, pre>>

\* ------------------------------------------- the Chat Completions variant

CReturn(p, r) ==
    /\ out' = [out EXCEPT ![p] = r]
    /\ pc' = [pc EXCEPT ![p] = "done"]

\* The message list of the first request.
FirstMessages(history, userPrompt) ==
    (IF Len(history) = 0 THEN <<SystemMessage>> ELSE history)
    \o <<UserMessage(userPrompt)>>

ChatRequest(msgs) ==
    [instructions |-> FALSE, prev |-> NoID, input |-> <<>>, messages |-> msgs]

\* "Start fresh if continue is false": the history is emptied, or its
\* length is read.
CReset(p) ==
    /\ ~useResponsesAPI
    /\ pc[p] = "start"
    /\ conversationHistory' =
            IF ~call[p].continue THEN <<>> ELSE conversationHistory
    /\ pc' = [pc EXCEPT ![p] = "build"]
    /\ Access(p, FALSE)
    /\ UNCHANGED <<config, invoked, responseID, mu, budget, call, prompt, messages,
                   held, toolCalls, iter, out, sent, ran, lastReq, reqBase, pre>>

\* "Add system message if starting fresh or first message": the length of
\* the history is read, and the message list gets the system turn when it
\* is zero.
CBuild(p) ==
    /\ ~useResponsesAPI
    /\ pc[p] = "build"
    /\ messages' = [messages EXCEPT ![p] =
            IF Len(conversationHistory) = 0 THEN <<SystemMessage>> ELSE <<>>]
    /\ pc' = [pc EXCEPT ![p] = "append"]
    /\ Access(p, FALSE)
    /\ UNCHANGED <<config, invoked, session, mu, budget, call, prompt, held, toolCalls,
                   iter, out, sent, ran, lastReq, reqBase, pre>>

\* In the other branch the history is read and appended; the user turn is
\* appended and the first request sent.
CAppend(p) ==
    /\ ~useResponsesAPI
    /\ pc[p] = "append"
    /\ IF messages[p] = <<>>
       THEN /\ messages' = [messages EXCEPT ![p] =
                    conversationHistory \o <<UserMessage(prompt[p])>>]
            /\ Access(p, FALSE)
       ELSE /\ messages' = [messages EXCEPT ![p] =
                    messages[p] \o <<UserMessage(prompt[p])>>]
            /\ UNCHANGED <<span, interleaved>>
    /\ iter' = [iter EXCEPT ![p] = 0]
    /\ lastReq' = [lastReq EXCEPT ![p] = ChatRequest(messages'[p])]
    /\ sent' = [sent EXCEPT ![p] = 1]
    /\ pc' = [pc EXCEPT ![p] = "chat"]
    /\ UNCHANGED <<config, invoked, session, mu, budget, call, prompt, held,
                   toolCalls, out, ran, reqBase, pre>>

\* A failed request that stores the message list built so far.
CChatFailsSaves(p) ==
    /\ ~useResponsesAPI
    /\ pc[p] = "chat"
    /\ conversationHistory' = messages[p]
    /\ CReturn(p, ResultError("apiError",
            <<Tok("prefix", "Chat Completions API error: ")>> \o ApiError))
    /\ Leave(p)
    /\ UNCHANGED <<config, invoked, responseID, mu, budget, call, prompt, messages, held,
                   toolCalls, iter, sent, ran, lastReq, reqBase, pre>>

\* A client that sends a failed request once more.
CChatRetries(p) ==
    /\ ~useResponsesAPI
    /\ pc[p] = "chat"
    /\ sent[p] < maxIterations
    /\ sent' = [sent EXCEPT ![p] = sent[p] + 1]
    /\ UNCHANGED <<config, invoked, session, mu, budget, pc, call, prompt, messages,
                   held, toolCalls, iter, out, ran, lastReq, reqBase, pre,
                   span, interleaved>>

\* The request fails.
CChatFails(p) ==
    /\ ~useResponsesAPI
    /\ pc[p] = "chat"
    /\ CReturn(p, ResultError("apiError",
            <<Tok("prefix", "Chat Completions API error: ")>> \o ApiError))
    /\ Leave(p)
    /\ UNCHANGED <<config, invoked, session, mu, budget, call, prompt, messages, held,
                   toolCalls, iter, sent, ran, lastReq, reqBase, pre>>

\* A completion arrives: no choice is an error; the assistant turn is
\* appended; without tool calls the history is saved and the content
\* returned.
CChat(p, limit) ==
    /\ ~useResponsesAPI
    /\ pc[p] = "chat"
    /\ \E kind \in Kinds(limit) :
          LET completion == Completion(kind)
          IN /\ Spend(kind)
             /\ IF Len(completion.Choices) = 0
                THEN /\ CReturn(p, ResultError("noChoices",
                            <<Tok("error", "No response from API")>>))
                     /\ Leave(p)
                     /\ UNCHANGED <<conversationHistory, messages, toolCalls>>
                ELSE LET message == completion.Choices[1]
                         msgs == Append(messages[p], AssistantMessage(message.Content))
                     IN /\ messages' = [messages EXCEPT ![p] = msgs]
                        /\ toolCalls' = [toolCalls EXCEPT ![p] = message.ToolCalls]
                        /\ IF Len(message.ToolCalls) = 0
                           THEN /\ conversationHistory' = msgs
                                /\ CReturn(p, ResultText("final", message.Content))
                                /\ Access(p, TRUE)
                           ELSE /\ pc' = [pc EXCEPT ![p] = "tools"]
                                /\ UNCHANGED <<conversationHistory, out, span,
                                               interleaved>>
    /\ UNCHANGED <<config, invoked, responseID, mu, call, prompt, held, iter, sent,
                   ran, lastReq, reqBase, pre>>

\* Execute the round's tool calls, append their turns, count the iteration,
\* and send the next request or leave the loop.
CTools(p) ==
    /\ ~useResponsesAPI
    /\ pc[p] = "tools"
    /\ messages' = [messages EXCEPT ![p] = messages[p] \o ToolMessages(toolCalls[p])]
    /\ ran' = [ran EXCEPT ![p] = ran[p] + Len(toolCalls[p])]
    /\ iter' = [iter EXCEPT ![p] = iter[p] + 1]
    /\ IF iter[p] + 1 < maxIterations
       THEN /\ lastReq' = [lastReq EXCEPT ![p] = ChatRequest(messages'[p])]
            /\ reqBase' = [reqBase EXCEPT ![p] = Len(lastReq[p].messages)]
            /\ sent' = [sent EXCEPT ![p] = sent[p] + 1]
            /\ pc' = [pc EXCEPT ![p] = "chat"]
            /\ UNCHANGED <<out, span, interleaved>>
       ELSE /\ CReturn(p, ResultError("maxIter",
                    <<Tok("error", "Max function call iterations reached")>>))
            /\ Leave(p)
            /\ UNCHANGED <<lastReq, reqBase, sent>>
    /\ invoked' = [invoked EXCEPT ![p] = ChatInvocations(toolCalls[p])]
    /\ UNCHANGED <<config, session, mu, budget, call, prompt, held, toolCalls, pre>>

\* ------------------------------------------------- the specifications

\* One step of goroutine p's call, the provider answering at most limit
\* times in the run.
Step(p, limit) ==
    \/ Finish(p)
    \/ RStart(p)
    \/ RFirstFails(p)
    \/ RFirst(p, limit)
    \/ RTools(p)
    \/ RFollowFails(p)
    \/ RFollow(p, limit)
    \/ CReset(p)
    \/ CBuild(p)
    \/ CAppend(p)
    \/ CChatFails(p)
    \/ CChat(p, limit)
    \/ CTools(p)

\* The pre-pass alone: one request, drawn from every combination of the
\* inputs, is handed to Handle.
PreInit == \E c \in AllRequests : Start(c, "arrived")

PreHandle(p) ==
    /\ pc[p] = "arrived"
    /\ Enter(p, call[p])

PreNext == \E p \in {"h1"} : PreHandle(p)

PreSpec == PreInit /\ [][PreNext]_vars

\* A deep run.
DeepNext ==
    \E p \in {"h1"} :
        \/ Arrive(p, MaxDeepCalls)
        \/ Step(p, MaxDeepAnswers)

DeepSpec == Init /\ [][DeepNext]_vars

\* A serial run.
SeqNext ==
    \E p \in {"h1"} :
        \/ Arrive(p, MaxSeqCalls)
        \/ Step(p, MaxSeqAnswers)

SeqSpec == Init /\ [][SeqNext]_vars

\* An overlapping run.
Next ==
    \E p \in Procs :
        \/ Arrive(p, MaxOverlapCalls)
        \/ Step(p, MaxOverlapAnswers)

Spec == Init /\ [][Next]_vars

\* A Chat Completions client between two calls: its history is empty or
\* holds the conversation an answered call stored.
Histories ==
    {<<>>, Append(FirstMessages(<<>>, PlainPrompt), AssistantMessage(AnswerText))}

HistInit ==
    /\ useResponsesAPI = FALSE
    /\ baseURL = "https://endpoint/v1"
    /\ env = NoEnv
    /\ responseID = NoID
    /\ conversationHistory \in Histories
    /\ Quiet(NoCall, "idle")

\* A deep run of the Chat Completions variant on a stored conversation.
HistNext ==
    \E p \in {"h1"} :
        \/ Arrive(p, MaxHistCalls)
        \/ Finish(p)
        \/ CReset(p)
        \/ CBuild(p)
        \/ CAppend(p)
        \/ CChatFails(p)
        \/ CChat(p, MaxHistAnswers)
        \/ CTools(p)

HistSpec == HistInit /\ [][HistNext]_vars

\* Overlapping calls of the Chat Completions variant on a stored
\* conversation.
HistOverlapNext ==
    \E p \in Procs :
        \/ Arrive(p, MaxOverlapCalls)
        \/ Finish(p)
        \/ CReset(p)
        \/ CBuild(p)
        \/ CAppend(p)
        \/ CChatFails(p)
        \/ CChat(p, MaxOverlapAnswers)
        \/ CTools(p)

HistOverlapSpec == HistInit /\ [][HistOverlapNext]_vars

\* The requests of the fair runs: one that enters the loop and one that
\* the pre-pass answers with a context request.
LiveRequests ==
    {Request(TRUE, PlainPrompt, TRUE, NoContext, FALSE),
     Request(TRUE, CodePrompt, FALSE, NoContext, TRUE)}

LiveArrive(p) ==
    /\ Idle(p)
    /\ calls < MaxLiveCalls
    /\ \E c \in LiveRequests : Enter(p, c)

\* A fair run. Calls of the Responses variant overlap and wait for the
\* lock; calls of the Chat Completions variant, which never wait for one
\* another, are delivered one at a time.
LiveNext ==
    \E p \in Procs :
        \/ (useResponsesAPI \/ p = "h1") /\ LiveArrive(p)
        \/ Step(p, MaxLiveAnswers)

\* Every goroutine in a call keeps running: a provider request and a tool
\* execution return (weak fairness of the call's steps), and a goroutine
\* blocked in mu.Lock() gets the lock when it is released again and
\* again (sync.Mutex hands the lock to a starving waiter).
LiveSpec ==
    /\ Init
    /\ [][LiveNext]_vars
    /\ \A p \in Procs : WF_vars(Step(p, MaxLiveAnswers))
    /\ \A p \in Procs : SF_vars(RStart(p))

\* The responses of any shape: output items that are reasoning items or
\* messages, a message holding content parts of a text type or another,
\* each with a text or the empty string.
SeqsUpTo(S, n) == UNION {[1..k -> S] : k \in 0..n}

ContentParts == {Part(type, text) : type \in {"output_text", "text", "refusal"},
                                  text \in {<<>>, AnswerText}}

TextItems == {ReasoningItem} \cup {MessageItem(c) : c \in SeqsUpTo(ContentParts, MaxTextParts)}

TextResponses(id) == {[ID |-> id, Output |-> o] : o \in SeqsUpTo(TextItems, MaxTextItems)}

\* The first response arrives, of any shape: store its id and enter the
\* loop.
RFirstText(p) ==
    /\ useResponsesAPI
    /\ pc[p] = "first"
    /\ \E r \in TextResponses(answers + 1) :
          /\ answers' = answers + 1
          /\ responseID' = r.ID
          /\ respID' = [respID EXCEPT ![p] = r.ID]
          /\ received' = [received EXCEPT ![p] = r]
          /\ iter' = [iter EXCEPT ![p] = 0]
          /\ RInspect(p, r)
          /\ Access(p, pc'[p] = "done")
    /\ UNCHANGED <<config, invoked, conversationHistory, calls, multi, call, prompt,
                   messages, sent, ran, lastReq, reqBase, pre>>

TextInit == Init /\ useResponsesAPI

\* One call of the Responses variant whose first response has any shape.
TextNext ==
    \E p \in {"h1"} :
        \/ Arrive(p, MaxTextCalls)
        \/ RStart(p)
        \/ RFirstText(p)
        \/ Finish(p)

TextSpec == TextInit /\ [][TextNext]_vars

\* The executors alone: every tool call over these names and arguments.
ToolNames == {"read_file", "grep_files", "delete_file", "write_file", "READ_FILE"}

ToolArguments ==
    [valid : BOOLEAN, path : {"a.go", "missing.go", ""},
     pattern : {"", "package"}, ignore_case : BOOLEAN]

ExecCalls == {ToolCall("call_1", name, a) : name \in ToolNames, a \in ToolArguments}

\* What an executor returns, as a result: the text, or the error.
Outcome(r) == IF r.failed THEN ResultError("exec", r.text) ELSE ResultText("exec", r.text)

\* The same tool call is executed by the executor of each variant: h1
\* holds what GPT5ProClient.executeFunction returns and invokes, h2 what
\* ChatCompletionsClient.executeFunction does.
Execute(p) ==
    /\ pc[p] = "idle"
    /\ \E tc \in ExecCalls :
          /\ toolCalls' = [q \in Procs |-> <<tc>>]
          /\ out' = [q \in Procs |->
                IF q = p THEN Outcome(executeFunction(tc.Name, tc.Arguments))
                ELSE Outcome(chatExecuteFunction(tc.Name, tc.Arguments))]
          /\ invoked' = [q \in Procs |->
                IF q = p THEN executeFunctionCalls(tc.Name, tc.Arguments)
                ELSE chatExecuteFunctionCalls(tc.Name, tc.Arguments)]
    /\ pc' = [q \in Procs |-> "executed"]
    /\ UNCHANGED <<config, session, mu, budget, call, prompt, messages, held,
                   iter, sent, ran, lastReq, reqBase, pre, span, interleaved>>

ExecNext == \E p \in {"h1"} : Execute(p)

ExecSpec == Init /\ [][ExecNext]_vars

\* The whole process: main reads the environment and builds the client,
\* then calls are served one after the other.
EnvInit ==
    /\ env \in Envs
    /\ useResponsesAPI = TRUE
    /\ baseURL = ""
    /\ Blank(NoCall, "boot")

\* main: the variant is chosen and the client built, or the process ends
\* for want of a key.
Boot(p) ==
    /\ pc[p] = "boot"
    /\ LET m == main(env)
           c == New(m.apiKey, m.baseURL, m.useResponsesAPI)
       IN IF m.fatal
          THEN /\ pc' = [pc EXCEPT ![p] = "fatal"]
               /\ useResponsesAPI' = m.useResponsesAPI
               /\ baseURL' = m.baseURL
          ELSE /\ pc' = [pc EXCEPT ![p] = "idle"]
               /\ useResponsesAPI' = c.useResponsesAPI
               /\ baseURL' = c.baseURL
    /\ UNCHANGED <<env, invoked, session, mu, budget, call, prompt, messages, held,
                   toolCalls, iter, out, sent, ran, lastReq, reqBase, pre,
                   span, interleaved>>

EnvNext ==
    \E p \in {"h1"} :
        \/ Boot(p)
        \/ Arrive(p, MaxEnvCalls)
        \/ Step(p, MaxEnvAnswers)

EnvSpec == EnvInit /\ [][EnvNext]_vars

\* ------------------------------------------------- the variants side by side

MaxIterText == <<Tok("error", "Max function call iterations reached")>>

\* What one call leaves behind: its result, the provider requests it sent
\* and the Session it stored.
Ran(result, requests, token, history) ==
    [out |-> result, sent |-> requests, token |-> token, history |-> history]

\* GPT5ProClient.Handle from the head of its loop, on a process whose
\* Session is empty, against a provider that answers the n-th request with
\* script[n]: the response to request n is in hand and i iterations are
\* done.
RECURSIVE RLoop(_, _, _)
RLoop(script, n, i) ==
    LET response == Response(script[n], n)
        text == extractTextContent(response)
    IN IF i >= maxIterations
       THEN Ran(ResultError("maxIter", MaxIterText), n, response.ID, <<>>)
       ELSE IF Len(extractToolCalls(response)) = 0
       THEN Ran(IF text = <<>>
                THEN ResultError("noText", <<Tok("error", "No text content in response")>>)
                ELSE ResultText("final", text),
                n, response.ID, <<>>)
       ELSE IF script[n + 1] = "error"
       THEN Ran(ResultError("apiError", FollowError), n + 1, response.ID, <<>>)
       ELSE RLoop(script, n + 1, i + 1)

RRun(script) ==
    IF script[1] = "error"
    THEN Ran(ResultError("apiError", FirstError), 1, NoID, <<>>)
    ELSE RLoop(script, 1, 0)

\* ChatCompletionsClient.Handle from the head of its loop, likewise: n
\* requests are sent, iteration iterations are done and msgs is the message
\* list.
RECURSIVE CLoop(_, _, _, _)
CLoop(script, n, iteration, msgs) ==
    IF iteration >= maxIterations
    THEN Ran(ResultError("maxIter", MaxIterText), n, NoID, <<>>)
    ELSE IF script[n + 1] = "error"
    THEN Ran(ResultError("apiError",
                <<Tok("prefix", "Chat Completions API error: ")>> \o ApiError),
             n + 1, NoID, <<>>)
    ELSE LET completion == Completion(script[n + 1])
         IN IF Len(completion.Choices) = 0
            THEN Ran(ResultError("noChoices", <<Tok("error", "No response from API")>>),
                     n + 1, NoID, <<>>)
            ELSE LET message == completion.Choices[1]
                     next == Append(msgs, AssistantMessage(message.Content))
                 IN IF Len(message.ToolCalls) = 0
                    THEN Ran(ResultText("final", message.Content), n + 1, NoID, next)
                    ELSE CLoop(script, n + 1, iteration + 1,
                               next \o ToolMessages(message.ToolCalls))

CRun(script, userPrompt) ==
    CLoop(script, 0, 0, FirstMessages(<<>>, userPrompt))

\* The provider's answers to the requests of one call, request by request:
\* rounds of tool calls, then an answer that ends the call.
RECURSIVE Rounds(_)
Rounds(k) == IF k = 0 THEN <<>> ELSE <<"tools">> \o Rounds(k - 1)

Scripts ==
    {Rounds(k) \o <<last>> :
        k \in 0..MaxPairRounds, last \in {"final", "blank", "none", "error"}}
    \cup {<<"manytools", last>> : last \in {"final", "error"}}

PairInit == \E c \in Requests : Start(c, "arrived")

\* The same call is handled by a client of each variant, both fresh, and
\* the provider answers both round for round with the same script: h1 holds
\* what the Responses client returns and h2 what the Chat Completions
\* client returns.
PairHandle(p) ==
    /\ pc[p] = "arrived"
    /\ \E r \in PrePass(call[p]), script \in Scripts :
          LET early == Ran(IF r.exit = "context" THEN ResultText(r.exit, r.text)
                           ELSE ResultError(r.exit, r.text), 0, NoID, <<>>)
              a == IF r.exit = "loop" THEN RRun(script) ELSE early
              b == IF r.exit = "loop" THEN CRun(script, r.text) ELSE early
          IN /\ prompt' = [prompt EXCEPT ![p] = IF r.exit = "loop" THEN r.text ELSE <<>>]
             /\ out' = [q \in Procs |-> IF q = p THEN a.out ELSE b.out]
             /\ sent' = [q \in Procs |-> IF q = p THEN a.sent ELSE b.sent]
             /\ responseID' = a.token
             /\ conversationHistory' = b.history
    /\ pc' = [q \in Procs |-> "paired"]
    /\ calls' = calls + 1
    /\ UNCHANGED <<config, invoked, mu, answers, multi, call, messages, held,
                   toolCalls, iter, ran, lastReq, reqBase, pre, span, interleaved>>

PairNext == \E p \in {"h1"} : PairHandle(p)

PairSpec == PairInit /\ [][PairNext]_vars

\* C15: handling the same call against the same provider answers, the two
\* variants return the same kind of result, the same text when it is an
\* answer, and send the same number of provider requests.
C15_VariantsAgree ==
    (pc["h1"] = "paired" /\ pc["h2"] = "paired")
    => /\ out["h1"].kind = out["h2"].kind
       /\ out["h1"].kind = "text" => out["h1"].text = out["h2"].text
       /\ sent["h1"] = sent["h2"]

\* ------------------------------------------------------------ the claims

\* C1: a call that ends with the 'Max function call iterations reached'
\* error has sent exactly 10 provider requests, and no call ever sends an
\* 11th.
C1_CapAfterTenRequests ==
    \A p \in Procs :
        /\ sent[p] <= maxIterations
        /\ (pc[p] = "done" /\ out[p].text = MaxIterText) => sent[p] = maxIterations

\* C2: after a call that ended in an error of the loop (provider error, no
\* choices or output, empty final text, iteration cap) the Session equals
\* the Session before the call.
C2_ErrorLeavesSession ==
    \A p \in Procs :
        (/\ pc[p] = "done"
         /\ out[p].kind = "error"
         /\ out[p].at \in {"apiError", "noChoices", "noText", "maxIter"})
        => Session = pre[p]

\* C3: no call reads or writes the Session between another call's first
\* and last access of it.
C3_NoInterleavedAccess == ~interleaved

\* The results the request in flight adds to the request before it.
Added(p) ==
    IF useResponsesAPI THEN lastReq[p].input
    ELSE SubSeq(lastReq[p].messages, reqBase[p] + 2, Len(lastReq[p].messages))

IsResult(item) ==
    IF useResponsesAPI THEN item.Type = "function_call_output"
    ELSE item.Role = "tool"

ResultID(item) == IF useResponsesAPI THEN item.CallID ELSE item.ToolCallID

FollowUpInFlight(p) == pc[p] \in {"follow", "chat"} /\ sent[p] > 1

Executed(tc) ==
    IF useResponsesAPI THEN executeFunction(tc.Name, tc.Arguments)
    ELSE chatExecuteFunction(tc.Name, tc.Arguments)

HasFailure(tcs) == \E i \in 1..Len(tcs) : Executed(tcs[i]).failed

\* The call has executed a round of tool calls and the provider has not
\* reacted since.
JustRan(p) ==
    IF useResponsesAPI THEN pc[p] = "follow"
    ELSE \/ pc[p] = "chat" /\ sent[p] > 1
         \/ pc[p] = "done" /\ out[p].at = "maxIter"

\* The results of the round: those the follow-up request adds or, when no
\* follow-up was sent, the last turns of the call's message list.
RoundResults(p) ==
    IF FollowUpInFlight(p) THEN Added(p)
    ELSE SubSeq(messages[p], Len(messages[p]) - Len(toolCalls[p]) + 1,
                Len(messages[p]))

\* Every tool call of the round has its result, a failed one the text
\* 'Error: <message>' and the others the executor's text.
RoundFedBack(p) ==
    /\ Len(RoundResults(p)) = Len(toolCalls[p])
    /\ \A i \in 1..Len(toolCalls[p]) :
          LET r == Executed(toolCalls[p][i])
          IN RoundResults(p)[i].Content =
                IF r.failed THEN <<Tok("prefix", "Error: ")>> \o r.text ELSE r.text

FirstInFlight(p) == pc[p] \in {"first", "chat"} /\ sent[p] = 1

\* C6: the first request of a call with continue=false carries no prior
\* state: no previous-response token, or the message list [system, user].
C6_FreshFirstRequest ==
    \A p \in Procs :
        (FirstInFlight(p) /\ ~call[p].continue)
        => IF useResponsesAPI THEN lastReq[p].prev = NoID
           ELSE lastReq[p].messages = <<SystemMessage, UserMessage(prompt[p])>>

UserTurns(history) ==
    Cardinality({i \in 1..Len(history) : history[i].Role = "user"})

\* C7: once a call with continue=false has been handled, whatever its
\* outcome, nothing stored before it is still stored: the token differs
\* from the one stored before, and the history is empty or holds the one
\* conversation of a final answer of this call.
C7_ContinueFalseResets ==
    \A p \in Procs :
        (pc[p] = "done" /\ ~call[p].continue)
        => /\ pre[p].token # NoID => responseID # pre[p].token
           /\ pre[p].history # <<>> =>
                 \/ conversationHistory = <<>>
                 \/ out[p].at = "final" /\ UserTurns(conversationHistory) = 1

\* C8: the first request of a call with continue=true carries the Session
\* as earlier calls left it: the stored token (none iff none is stored), or
\* the stored history and the new user turn ([system, user] iff the history
\* is empty).
C8_ContinueCarriesSession ==
    \A p \in Procs :
        (FirstInFlight(p) /\ call[p].continue)
        => IF useResponsesAPI
           THEN /\ lastReq[p].prev = pre[p].token
                /\ lastReq[p].input = <<InputMessage(prompt[p])>>
           ELSE lastReq[p].messages =
                    IF pre[p].history = <<>>
                    THEN <<SystemMessage, UserMessage(prompt[p])>>
                    ELSE pre[p].history \o <<UserMessage(prompt[p])>>

\* C8's case: a continuing call's first request in flight with a token or
\* a history stored by an earlier call.
C8_Witness ==
    \E p \in Procs :
        /\ FirstInFlight(p)
        /\ call[p].continue
        /\ pre[p].token # NoID \/ pre[p].history # <<>>

\* The scanner short-circuits request c.
ShortCircuits(c) ==
    /\ c.hasPrompt
    /\ c.auto_gather_context
    /\ c.gathered_context.raw = "empty"
    /\ AnalyzePromptForReferences(c.prompt).HasCodeRefs

\* C9: a call with auto_gather_context, no gathered context and a detected
\* code reference returns the context request, sends no provider request,
\* executes no tool and leaves the Session as it was.
C9_ShortCircuitTouchesNothing ==
    \A p \in Procs :
        (pc[p] # "idle" /\ ShortCircuits(call[p]))
        => /\ pc[p] = "done"
           /\ out[p].kind = "text"
           /\ out[p].text[2] = Tok("heading", "CONTEXT REQUESTS:")
           /\ sent[p] = 0
           /\ ran[p] = 0
           /\ lastReq[p] = NoRequest
           /\ Session = pre[p]

\* C9's case: a short-circuited call, continue unset, on a process whose
\* Session is not empty.
C9_Witness ==
    \E p \in Procs :
        /\ pc[p] = "done"
        /\ ShortCircuits(call[p])
        /\ ~call[p].continue
        /\ pre[p].token # NoID \/ pre[p].history # <<>>

\* text is pr merged with a context: the question under its heading first,
\* the question restated under the analysis heading last.
IsMerged(text, pr) ==
    /\ Len(text) >= 2 * Len(pr) + 3
    /\ text[1] = Tok("heading", "# ORIGINAL QUESTION")
    /\ SubSeq(text, 2, Len(pr) + 1) = pr
    /\ text[Len(text) - Len(pr) - 1] = Tok("heading", "# ANALYSIS REQUEST")
    /\ SubSeq(text, Len(text) - Len(pr) + 1, Len(text)) = pr

Handled(p) == pc[p] \in {"start", "done"} /\ call[p].hasPrompt

\* C10 as claimed: a non-empty gathered_context always leads to the loop
\* with the merged prompt; otherwise auto_gather_context with a detected
\* reference short-circuits; otherwise the loop is entered with the prompt
\* unchanged.
C10_ContextAlwaysEntersLoop ==
    \A p \in Procs :
        Handled(p) =>
            IF call[p].gathered_context.raw # "empty"
            THEN pc[p] = "start" /\ IsMerged(prompt[p], call[p].prompt)
            ELSE IF ShortCircuits(call[p])
            THEN pc[p] = "done" /\ out[p].at = "context"
            ELSE pc[p] = "start" /\ prompt[p] = call[p].prompt

\* C10 as amended: a non-empty gathered_context that decodes leads to the
\* loop with the merged prompt and one that does not decode returns the
\* parse error, the scanner short-circuiting in neither case; the rest as
\* claimed.
C10_PrePassPrecedence ==
    \A p \in Procs :
        Handled(p) =>
            IF call[p].gathered_context.raw = "json"
            THEN pc[p] = "start" /\ IsMerged(prompt[p], call[p].prompt)
            ELSE IF call[p].gathered_context.raw = "invalid"
            THEN /\ pc[p] = "done"
                 /\ out[p].kind = "error"
                 /\ out[p].at = "badContext"
            ELSE IF ShortCircuits(call[p])
            THEN pc[p] = "done" /\ out[p].at = "context"
            ELSE pc[p] = "start" /\ prompt[p] = call[p].prompt

\* C10's case: a context is supplied with auto_gather_context set and a
\* prompt that holds code references, and the loop is entered.
C10_Witness ==
    \E p \in Procs :
        /\ pc[p] = "start"
        /\ call[p].gathered_context.raw = "json"
        /\ call[p].auto_gather_context
        /\ AnalyzePromptForReferences(call[p].prompt).HasCodeRefs

\* Request c fails validation: it has no prompt, or a gathered_context
\* that json.Unmarshal rejects for a GatheredContext.
FailsValidation(c) == ~c.hasPrompt \/ c.gathered_context.raw = "invalid"

\* C11: a call without a prompt, or with a gathered_context that does not
\* decode, returns an error at once: the loop is not entered, no provider
\* request is sent, no tool runs and the Session stays as it was, with
\* continue set or unset.
C11_ValidationErrorTouchesNothing ==
    \A p \in Procs :
        (pc[p] # "idle" /\ FailsValidation(call[p]))
        => /\ pc[p] = "done"
           /\ out[p].kind = "error"
           /\ out[p].at = (IF call[p].hasPrompt THEN "badContext" ELSE "noPrompt")
           /\ out[p].text # <<>>
           /\ sent[p] = 0
           /\ ran[p] = 0
           /\ lastReq[p] = NoRequest
           /\ Session = pre[p]

\* C11's case: a call with continue=false and an undecodable
\* gathered_context has returned on a process whose Session is not empty.
C11_Witness ==
    \E p \in Procs :
        /\ pc[p] = "done"
        /\ call[p].gathered_context.raw = "invalid"
        /\ ~call[p].continue
        /\ pre[p].token # NoID \/ pre[p].history # <<>>

\* The call of p ended on a response without tool calls whose text is
\* empty.
EndedOnEmptyText(p) ==
    /\ pc[p] = "done"
    /\ \/ out[p].at = "noText"
       \/ out[p].at = "final" /\ out[p].text = <<>>

\* C12: a call that ends on a response with no tool call and an empty
\* text returns an error, and the Session is as it was when the call
\* arrived.
C12_EmptyTextIsError ==
    \A p \in Procs :
        EndedOnEmptyText(p) => (out[p].kind = "error" /\ Session = pre[p])

\* In this step p receives a response without tool calls and returns.
LastRound(p) ==
    /\ pc[p] \in {"first", "follow", "chat"}
    /\ pc'[p] = "done"
    /\ out'[p].at \in {"final", "noText"}

\* C13: the step that handles a response without tool calls sends no
\* request and runs no tool, and writes the Session only when it returns
\* the final text.
C13_WriteOnlyWithFinalText ==
    [][\A p \in Procs :
          LastRound(p) =>
             /\ sent'[p] = sent[p]
             /\ ran'[p] = ran[p]
             /\ lastReq'[p] = lastReq[p]
             /\ Session' # Session => out'[p].kind = "text"]_vars

CompatibilityNote == Tok("note", "COMPATIBILITY NOTE: Responses API is NOT supported")

\* C14: in the Responses variant with a base URL set, the error text of
\* every failed provider request, first or follow-up, holds the
\* compatibility note.
C14_NoteOnEveryProviderError ==
    \A p \in Procs :
        (/\ useResponsesAPI
         /\ baseURL # ""
         /\ pc[p] = "done"
         /\ out[p].at = "apiError")
        => \E i \in 1..Len(out[p].text) : out[p].text[i] = CompatibilityNote

ProviderFailure == {"apiError", "noChoices"}

\* C16: the step in which a provider request of a call fails ends the call
\* with an error, sending no request and running no tool; after it the call
\* does nothing but hand its result back.
C16_FailureIsTerminal ==
    [][\A p \in Procs :
          /\ (out[p].at \notin ProviderFailure /\ out'[p].at \in ProviderFailure)
             => /\ pc'[p] = "done"
                /\ out'[p].kind = "error"
                /\ sent'[p] = sent[p]
                /\ ran'[p] = ran[p]
                /\ lastReq'[p] = lastReq[p]
          /\ (pc[p] \in {"first", "follow", "chat"} /\ pc'[p] = pc[p])
             => sent'[p] = sent[p]
          /\ out[p].at \in ProviderFailure
             => /\ pc[p] = "done"
                /\ pc'[p] \in {"done", "idle"}
                /\ sent'[p] <= sent[p]
                /\ ran'[p] <= ran[p]]_vars

\* C16's case: a follow-up request has failed after a round of tool calls
\* and the call is over.
C16_Witness ==
    \E p \in Procs :
        /\ pc[p] = "done"
        /\ out[p].at = "apiError"
        /\ sent[p] >= 2
        /\ ran[p] >= 1

\* A tool call of a known tool whose argument string does not decode.
Malformed(tc) == tc.Name \in {"read_file", "grep_files"} /\ ~tc.Arguments.valid

InvalidArgumentsText ==
    <<Tok("prefix", "Error: "), Tok("error", "invalid arguments: ")>>

Booted == pc["h1"] \notin {"boot", "fatal"}

MentionsCode(pr) ==
    \E i \in 1..Len(pr) :
        \/ pr[i].t \in {"file", "line", "colon"}
        \/ pr[i].t = "call" /\ ~isCommonWord(pr[i].v)

\* C19: with auto_gather_context and no gathered context, a prompt that
\* mentions a file path, a function call or a line-number reference, a
\* line-number reference alone included, is answered with the context
\* request and not handed to the model.
C19_EveryReferenceAsksForContext ==
    \A p \in Procs :
        (/\ Handled(p)
         /\ call[p].auto_gather_context
         /\ call[p].gathered_context.raw = "empty"
         /\ MentionsCode(call[p].prompt))
        => (pc[p] = "done" /\ out[p].at = "context")

\* The headings of a text, in their order.
Headings(text) == Values(text, {"heading"})

\* The heading a position of a text stands under.
HeadingOf(text, i) ==
    LET before == {j \in 1..i : text[j].t = "heading"}
    IN text[CHOOSE j \in before : \A k \in before : k <= j].v

\* Under the heading there is one block for each key of the map, and
\* blocks of that label nowhere else: the labelled key, then its content
\* between fences.
OneBlockPerKey(text, heading, label, m) ==
    LET at == {i \in 1..Len(text) : text[i].t = label}
    IN /\ Cardinality(at) = Cardinality(DOMAIN m)
       /\ {text[i].v : i \in at} = DOMAIN m
       /\ \A i \in at :
             /\ HeadingOf(text, i) = heading
             /\ i + 3 <= Len(text)
             /\ text[i + 1] = Tok("fence", "fence")
             /\ text[i + 2] = Tok("body", m[text[i].v])
             /\ text[i + 3] = Tok("fence", "fence")

\* The headings of the merged prompt for a decoded context.
SectionsFor(gc) ==
    <<"# ORIGINAL QUESTION">>
    \o (IF DOMAIN gc.files # {} THEN <<"# RELEVANT CODE CONTEXT">> ELSE <<>>)
    \o (IF DOMAIN gc.functions # {} THEN <<"# FUNCTION IMPLEMENTATIONS">> ELSE <<>>)
    \o (IF DOMAIN gc.metadata # {} THEN <<"# ADDITIONAL CONTEXT">> ELSE <<>>)
    \o <<"# ANALYSIS REQUEST">>

C21_MergeIsDeterministic ==
    \A p \in Procs :
        (pc[p] = "start" /\ call[p].gathered_context.raw = "json")
        => \A e \in EnrichPromptWithContext(call[p].prompt, call[p].gathered_context) :
              e.text = prompt[p]

\* The turns before place i that carry a tool invocation request with
\* the id of the tool turn at i.
Requesting(msgs, i) ==
    {j \in 1..(i - 1) :
        /\ msgs[j].Role = "assistant"
        /\ \E k \in 1..Len(msgs[j].ToolCalls) :
              msgs[j].ToolCalls[k].ID = msgs[i].ToolCallID}

Matched(msgs) ==
    \A i \in 1..Len(msgs) : msgs[i].Role = "tool" => Requesting(msgs, i) # {}

\* C22: in the Chat Completions variant every tool turn of a message
\* list sent to the provider, and of the stored history, comes after an
\* assistant turn that carries the tool invocation request of its id.
C22_ToolTurnsFollowTheirRequest ==
    ~useResponsesAPI =>
        /\ Matched(conversationHistory)
        /\ \A p \in Procs : Matched(lastReq[p].messages)

\* C23: in the Responses variant, calls handled one after the other, a
\* follow-up request in flight carries the id of the response received
\* last, and after a final answer the stored token is the id of the
\* response the answer came from, the one received last. The provider
\* numbers its responses, so the one received last has the number of
\* answers given.
C23_TokenIsLastResponse ==
    \A p \in Procs :
        useResponsesAPI =>
            /\ pc[p] = "follow" =>
                  /\ lastReq[p].prev = answers
                  /\ lastReq[p].prev # NoID
                  /\ ~lastReq[p].instructions
            /\ (pc[p] = "done" /\ out[p].at = "final") => responseID = answers

\* C23's case: the second follow-up request of a call is in flight on a
\* process that had a token stored before the call.
C23_Witness ==
    \E p \in Procs :
        /\ useResponsesAPI
        /\ pc[p] = "follow"
        /\ sent[p] >= 3
        /\ pre[p].token # NoID

\* The goroutines between the first read and the last write of the
\* stored token of their call.
InSection == {p \in Procs : pc[p] \in {"first", "tools", "follow"}}

\* C24: in the Responses variant at most one call at a time is between
\* its first read and its last write of the stored token, that call
\* holds the lock, no call's accesses fall between another's, and a
\* first request in flight carries the token as the stored one stands,
\* which is as the holder of the lock before it left it (cleared when
\* the call does not continue).
C24_CallsAreSerialized ==
    useResponsesAPI =>
        /\ Cardinality(InSection) <= 1
        /\ \A p \in Procs : (p \in InSection) <=> (mu = p)
        /\ ~interleaved
        /\ \A p \in Procs :
              pc[p] = "first" =>
                  /\ lastReq[p].prev = (IF call[p].continue THEN responseID ELSE NoID)
                  /\ ~call[p].continue => responseID = NoID

\* C24's case: a call that arrived before another call stored its
\* token has waited for the lock, and its first request carries that
\* token while the other goroutine has returned or waits with its next
\* call.
C24_Witness ==
    \E p, q \in Procs :
        /\ p # q
        /\ useResponsesAPI
        /\ pc[q] = "first"
        /\ call[q].continue
        /\ lastReq[q].prev # NoID
        /\ pre[q].token = NoID
        /\ pc[p] \in {"start", "done"}

\* The number of turns of a role in a message list.
TurnsOf(role, msgs) == Cardinality({i \in 1..Len(msgs) : msgs[i].Role = role})

\* Both goroutines have returned the final answer of a continuing call.
BothAnswered ==
    \A p \in Procs :
        /\ pc[p] = "done"
        /\ out[p].at = "final"
        /\ call[p].continue

\* C25: when two continuing calls of the Chat Completions variant have
\* both returned a final answer, the stored history holds the user turn
\* and the final assistant turn of each of them.
C25_BothCallsKeepTheirTurns ==
    (~useResponsesAPI /\ BothAnswered) =>
        /\ TurnsOf("user", conversationHistory) >= 2
        /\ TurnsOf("assistant", conversationHistory) >= 2
        /\ \A p \in Procs :
              \E i \in 1..Len(conversationHistory) :
                  conversationHistory[i] = UserMessage(prompt[p])

\* C26: in the Responses variant, when a call has returned and the
\* stored token is the id of the response that call received last, that
\* response carried no tool call.
C26_TokenAtRestHasNoPendingCalls ==
    \A p \in Procs :
        (/\ useResponsesAPI
         /\ pc[p] = "done"
         /\ mu = Unlocked
         /\ responseID # NoID
         /\ responseID = received[p].ID)
        => Len(extractToolCalls(received[p])) = 0

\* C27: in the Chat Completions variant, calls handled one after the
\* other, a continuing call in progress, and one that has ended in an
\* error, leaves the stored history as it was when the call arrived; the
\* history differs from that only once the final answer is returned.
C27_ErrorKeepsHistory ==
    \A p \in Procs :
        (~useResponsesAPI /\ pc[p] \in {"start", "build", "append", "chat", "tools", "done"}
           /\ call[p].continue)
        => /\ out[p].at # "final" => conversationHistory = pre[p].history
           /\ out[p].kind = "error" => conversationHistory = pre[p].history
           /\ conversationHistory # pre[p].history =>
                 /\ pc[p] = "done"
                 /\ out[p].at = "final"
                 /\ conversationHistory = messages[p]

\* C27's case: a continuing call on a stored conversation has executed
\* tools in earlier rounds and then ended in an error.
C27_Witness ==
    \E p \in Procs :
        /\ ~useResponsesAPI
        /\ pc[p] = "done"
        /\ call[p].continue
        /\ out[p].at = "maxIter"
        /\ ran[p] >= maxIterations
        /\ pre[p].history # <<>>
        /\ conversationHistory = pre[p].history

\* A message list that begins with the system turn and holds no other.
OneLeadingSystem(msgs) ==
    /\ Len(msgs) > 0
    /\ msgs[1] = SystemMessage
    /\ TurnsOf("system", msgs) = 1

\* C28: in the Chat Completions variant the stored history is empty or
\* begins with its only system turn, and every message list sent to the
\* provider begins with its only system turn.
C28_OneLeadingSystemTurn ==
    ~useResponsesAPI =>
        /\ conversationHistory = <<>> \/ OneLeadingSystem(conversationHistory)
        /\ \A p \in Procs :
              sent[p] > 0 => OneLeadingSystem(lastReq[p].messages)

\* Goroutine p is in the loop part of a call that has not returned.
InCall(p) ==
    pc[p] \in {"start", "first", "tools", "follow", "build", "append", "chat"}

Returned(p) == pc[p] = "done" /\ out[p].kind \in {"text", "error"}

\* C29: when every provider request and every tool execution returns,
\* every call returns: a call in progress, one waiting for the lock of
\* the Responses variant included, leads to its return with one result,
\* a text or an error. No result exists before the return, a returned
\* call does not hold the lock, and it has sent at most one request more
\* than the iteration cap.
C29_EveryCallReturns ==
    /\ \A p \in Procs : InCall(p) ~> Returned(p)
    /\ [](\A p \in Procs :
            /\ InCall(p) => out[p] = NoResult
            /\ pc[p] = "done" =>
                  /\ Returned(p)
                  /\ mu # p
                  /\ sent[p] <= maxIterations + 1
            /\ (\A q \in Procs : pc[q] \notin {"first", "tools", "follow"})
                  => mu = Unlocked)

\* C29's case: a call waits for the lock while the call that holds it
\* has its last request before the iteration cap in flight.
C29_Witness ==
    \E p, q \in Procs :
        /\ p # q
        /\ useResponsesAPI
        /\ pc[q] = "start"
        /\ mu = p
        /\ pc[p] = "follow"
        /\ sent[p] = maxIterations + 1

\* The texts of the parts of type "text" or "output_text" of a content.
RECURSIVE TextsOf(_)
TextsOf(content) ==
    IF content = <<>> THEN <<>>
    ELSE (IF Head(content).Type \in {"text", "output_text"}
          THEN <<Head(content).Text>> ELSE <<>>)
         \o TextsOf(Tail(content))

\* The texts of the message items of an output, in output order.
RECURSIVE MessageTexts(_)
MessageTexts(output) ==
    IF output = <<>> THEN <<>>
    ELSE (IF Head(output).Type = "message" THEN TextsOf(Head(output).Content)
          ELSE <<>>)
         \o MessageTexts(Tail(output))

\* The newline-join of texts: a newline between every two neighbours.
RECURSIVE NewlineJoin(_)
NewlineJoin(texts) ==
    IF texts = <<>> THEN <<>>
    ELSE IF Len(texts) = 1 THEN texts[1]
    ELSE texts[1] \o <<NL>> \o NewlineJoin(Tail(texts))

\* C30: in the Responses variant the final text a call returns is the
\* newline-join, in output order, of the texts of the "text" and
\* "output_text" parts of the message items of the response it came from.
C30_FinalTextIsNewlineJoin ==
    \A p \in Procs :
        (useResponsesAPI /\ pc[p] = "done" /\ out[p].at = "final")
        => out[p].text = NewlineJoin(MessageTexts(received[p].Output))

\* The tool call the executors were given.
GivenCall == toolCalls["h1"][1]

\* C31: the executors of both variants know the names read_file and
\* grep_files alone. Any other name gets the error "unknown function"
\* and no file operation; a known name with arguments that decode gets
\* one invocation of its file operation, with the arguments of the call,
\* and the text or error of that operation as it is; and both executors
\* return the same and invoke the same.
C31_ExecutorsDispatchAlike ==
    pc["h1"] = "executed" =>
        LET name == GivenCall.Name
            a == GivenCall.Arguments
        IN /\ name \notin {"read_file", "grep_files"} =>
                 /\ out["h1"] = ResultError("exec",
                        <<Tok("error", "unknown function: "), Word(name)>>)
                 /\ invoked["h1"] = <<>>
           /\ (name = "read_file" /\ a.valid) =>
                 /\ invoked["h1"] = <<ReadFileCall(a.path)>>
                 /\ out["h1"].text = ReadFile(a.path).text
                 /\ (out["h1"].kind = "error") = ReadFile(a.path).failed
           /\ (name = "grep_files" /\ a.valid) =>
                 /\ invoked["h1"] = <<GrepFilesCall(a.pattern, a.path, a.ignore_case)>>
                 /\ out["h1"].text = GrepFiles(a.pattern, a.path, a.ignore_case).text
                 /\ (out["h1"].kind = "error") = GrepFiles(a.pattern, a.path, a.ignore_case).failed
           /\ out["h2"] = out["h1"]
           /\ invoked["h2"] = invoked["h1"]

\* C31's case: a name in other letters than a known one was executed
\* with arguments that decode and a path that exists.
C31_Witness ==
    /\ pc["h1"] = "executed"
    /\ GivenCall.Name = "READ_FILE"
    /\ GivenCall.Arguments.valid
    /\ GivenCall.Arguments.path = "a.go"
    /\ out["h2"].kind = "error"

\* The file path matched most recently before place i of a prompt, or
\* "" when no file path comes before it.
FileBefore(pr, i) ==
    LET before == {j \in 1..(i - 1) : pr[j].t = "file"}
    IN IF before = {} THEN ""
       ELSE pr[CHOOSE j \in before : \A k \in before : k <= j].v

\* The line references of a prompt that come after file path f with no
\* other file path in between.
LineRefsOf(pr, f) ==
    {pr[i].v : i \in {j \in 1..Len(pr) : pr[j].t \in {"line", "colon"}
                                          /\ FileBefore(pr, j) = f}}

\* The places of the file entries of a context request text.
FileEntries(text) ==
    {k \in 1..Len(text) :
        text[k].t = "entry" /\ text[k].v \in {"file_section", "file_content"}}

\* The line range a file entry shows, or "" when it shows none.
LinesOf(text, k) ==
    IF k + 2 <= Len(text) /\ text[k + 2].t = "Lines" THEN text[k + 2].v ELSE ""

\* C32: in a context request, a file is marked file_section, with a line
\* range, exactly when a line reference of the prompt comes after its
\* path with no other file path in between, and the range is such a
\* line reference; every other file is marked file_content and has no
\* range.
C32_LineRefsGoToNearestFile ==
    \A p \in Procs :
        (pc[p] = "done" /\ out[p].at = "context") =>
            \A k \in FileEntries(out[p].text) :
                LET f == out[p].text[k + 1].v
                    refs == LineRefsOf(call[p].prompt, f)
                IN /\ (out[p].text[k].v = "file_section") <=> (refs # {})
                   /\ IF refs # {} THEN LinesOf(out[p].text, k) \in refs
                      ELSE LinesOf(out[p].text, k) = ""

=============================================================================
